---- MODULE Spec2Model ----
(***************************************************************************)
(* Model of the paginated mail retrieval handler, app.post("/api/emails"), *)
(* of the node-imap variant with a fetch deadline and a processed set      *)
(* (src/unnamed/part_000, lines 2-148).                                    *)
(*                                                                         *)
(* One request is followed from its arrival to its HTTP response and       *)
(* beyond: the listeners registered on the fetch stream stay registered    *)
(* after the promise has settled, so stream events and parse completions   *)
(* that arrive late still run their handlers.                              *)
(*                                                                         *)
(* JavaScript runs every callback to completion, so one action is one      *)
(* callback.  The continuation of `await new Promise(...)` (imap.end() and *)
(* res.json) is the first microtask queued by resolve(); no stream event,  *)
(* timer or parser completion can run between resolve() and it, so it is   *)
(* part of the action that settles the promise.                            *)
(***************************************************************************)
EXTENDS Integers, Sequences, FiniteSets, Bags, TLC

\* ---------------------------------------------------------------- bounds
MaxUid == 2          \* the mailbox holds at most MaxUid messages
MaxPage == 2         \* requested page is drawn from 1..MaxPage
MaxPageSize == 2     \* requested pageSize is drawn from 1..MaxPageSize
MaxMsgs == 2         \* 'message' events the fetch stream emits
MaxChunks == 2       \* 'data' events the fetch stream emits, over all bodies
MaxDate == 2         \* timestamps (Date header values and the clock) are 1..MaxDate
PlanMaxUid == 10     \* messages of the mailbox in the planner-only specification
PlanMaxPage == 5     \* pages in the planner-only specification
PlanMaxPageSize == 4 \* page sizes in the planner-only specification
MaxFlags == 2        \* flags set in the mailbox, over all its messages
MaxReqs == 2         \* page requests in flight at the same time
MaxPieces == 3       \* pieces (words, whitespace runs, tags) a message text is made of
MaxTicks == 6        \* clock ticks followed while a connection is being made
WideMaxUid == 3      \* messages of the mailbox in the far-page specification
WideMaxPage == 5     \* pages in the far-page specification
WideMaxPageSize == 1 \* page sizes in the far-page specification

\* ------------------------------------------------------------- constants
Undefined == 0       \* the value of `let uid;` before the attributes event
NoDate == 0          \* a chunk that carries no Date header
BadChunk == -1       \* a chunk that makes simpleParser reject

NoResponse == [status |-> "none"]

PreviewLimit == 150  \* .substring(0, 150)
Placeholder == <<"(", "N", "o", " ", "p", "r", "e", "v", "i", "e", "w", ")">>

\* the IMAP system flags the handler and the mailbox deal with
Seen == "\\Seen"
Flagged == "\\Flagged"
Deleted == "\\Deleted"
Flags == {Seen, Flagged, Deleted}

VARIABLES
    page, pageSize, unreadOnly, \* req.body
    pc,                         \* position of the async handler
    imapState,                  \* the connection: new, ready, ended, destroyed
    boxTotal,                   \* box.messages.total
    uids,                       \* result of imap.search, ascending
    totalMessages, totalPages, startIdx, endIdx, pageUids,
    results, processed, completed,
    timer,                      \* fetchTimeout: none, armed, fired, cleared
    settled,                    \* which callback resolved the promise first
    streamEnd, streamError,     \* fetch.once('end') / fetch.once('error') ran
    msgs,                       \* the live closures of fetch.on('message'), a bag
    chunksSent,                 \* 'data' events emitted so far
    now,                        \* last value returned by Date.now()
    response,                   \* what res.json / res.status(500).json sent
    responses,                  \* number of responses sent
    logged,                     \* what console.error reported, per UID
    lock, lockReleases,         \* the ImapFlow mailbox lock and its release() calls
    cursor,                     \* position of `for (const uid of pageUids)`
    boxFlags,                   \* the flags of the mailbox: pairs <<uid, flag>>
    clockStamped,               \* the UIDs whose summary took Date.now()
    text, preview,              \* parsed.text / parsed.textAsHtml and the previews emitted
    bodies,                     \* per 'message' event: the chunks sent and `buffer`
    requests,                   \* per concurrent request: its own state
    conn,                       \* connectImap: its promise, timer and listeners
    single                      \* the single-message body fetch and its request

vars == <<page, pageSize, unreadOnly, pc, imapState, boxTotal, uids,
          totalMessages, totalPages, startIdx, endIdx, pageUids,
          results, processed, completed, timer, settled, streamEnd,
          streamError, msgs, chunksSent, now, response, responses,
          logged, lock, lockReleases, cursor, boxFlags, clockStamped,
          text, preview, bodies, requests, conn, single>>

\* the variables of the whole handler
mainVars == <<page, pageSize, unreadOnly, pc, imapState, boxTotal, uids,
              totalMessages, totalPages, startIdx, endIdx, pageUids,
              results, processed, completed, timer, settled, streamEnd,
              streamError, msgs, chunksSent, now, response, responses,
              logged, lock, lockReleases, cursor, boxFlags, clockStamped>>

\* variables of the specifications of single parts of the handler
auxVars == <<text, preview, bodies, requests, conn, single>>

flowVars == <<lock, lockReleases, cursor>>

planVars == <<totalMessages, totalPages, startIdx, endIdx, pageUids>>
fetchVars == <<results, processed, completed, timer, settled, streamEnd,
               streamError, msgs, chunksSent, now, logged>>

\* --------------------------------------------------------------- helpers
Max(a, b) == IF a >= b THEN a ELSE b
Min(a, b) == IF a <= b THEN a ELSE b

\* Math.ceil(a / b) for a >= 0, b >= 1
Ceil(a, b) == (a + b - 1) \div b

\* the ascending enumeration of a set of UIDs (what the server's SEARCH returns)
RECURSIVE Ascending(_)
Ascending(S) ==
    IF S = {} THEN <<>>
    ELSE LET m == CHOOSE x \in S : \A y \in S : x <= y
         IN <<m>> \o Ascending(S \ {m})

Reverse(s) == [i \in 1..Len(s) |-> s[Len(s) + 1 - i]]

\* Array.prototype.slice(start, end): a negative index counts from the end
RelIndex(k, len) == IF k < 0 THEN Max(len + k, 0) ELSE Min(k, len)

JsSlice(s, start, end) ==
    LET from == RelIndex(start, Len(s))
        to == RelIndex(end, Len(s))
    IN [i \in 1..Max(to - from, 0) |-> s[from + i]]

Range(s) == {s[i] : i \in 1..Len(s)}

\* ---------------------------------------------------- UID window planner
TotalPages(total, psize) == Ceil(total, psize)

\* a window that reaches one position into the next page's
StartIdxOverlapping(total, p, psize) == Max(0, total - (p * psize) - 1)

StartIdx(total, p, psize) == Max(0, total - (p * psize))

EndIdx(total, p, psize) == total - ((p - 1) * psize)

PageUidsNotReversed(u, p, psize) ==
    JsSlice(u, StartIdx(Len(u), p, psize), EndIdx(Len(u), p, psize))

\* uids.slice(startIdx, endIdx).reverse()
PageUids(u, p, psize) ==
    Reverse(JsSlice(u, StartIdx(Len(u), p, psize), EndIdx(Len(u), p, psize)))

HasMore(p, tp) == p < tp

Pagination(p, psize, total, tp) ==
    [page |-> p, pageSize |-> psize, totalMessages |-> total,
     totalPages |-> tp, hasMore |-> HasMore(p, tp)]

EmptyBoxPagination(psize) ==
    [page |-> 1, pageSize |-> psize, totalMessages |-> 0,
     totalPages |-> 0, hasMore |-> FALSE]

Success(emails, pagination) ==
    [status |-> "ok", emails |-> emails, pagination |-> pagination]

Failure(message) == [status |-> "error", error |-> message]

\* ------------------------------------------------------------------ Init
\* the locals of one request before its first await
InitState ==
    /\ pc = "connect"
    /\ imapState = "new"
    /\ boxTotal = 0
    /\ uids = <<>>
    /\ totalMessages = 0
    /\ totalPages = 0
    /\ startIdx = 0
    /\ endIdx = 0
    /\ pageUids = <<>>
    /\ results = <<>>
    /\ processed = {}
    /\ completed = 0
    /\ timer = "none"
    /\ settled = "pending"
    /\ streamEnd = FALSE
    /\ streamError = FALSE
    /\ msgs = EmptyBag
    /\ chunksSent = 0
    /\ now = 1
    /\ response = NoResponse
    /\ responses = 0
    /\ logged = {}
    /\ lock = "none"
    /\ lockReleases = 0
    /\ cursor = 0
    /\ clockStamped = {}

\* the specifications of the whole handler leave auxVars as they are
AuxInit ==
    /\ text = <<>>
    /\ preview = <<>>
    /\ bodies = <<>>
    /\ requests = <<>>
    /\ conn = <<>>
    /\ single = <<>>

\* a mailbox none of whose messages carries a flag
InitWith(maxPage, maxPageSize) ==
    /\ page \in 1..maxPage
    /\ pageSize \in 1..maxPageSize
    /\ unreadOnly \in BOOLEAN
    /\ boxFlags = {}
    /\ InitState
    /\ AuxInit

Init == InitWith(MaxPage, MaxPageSize)

PlanInit == InitWith(PlanMaxPage, PlanMaxPageSize)

\* ------------------------------------------------- the handler up to fetch
CatchErrorLeavesOpen(message) ==
    /\ pc' = "done"
    /\ imapState' = imapState
    /\ response' = Failure(message)
    /\ responses' = responses + 1

\* catch (err): imap.destroy(); res.status(500).json(...)
CatchError(message) ==
    /\ pc' = "done"
    /\ imapState' = "destroyed"
    /\ response' = Failure(message)
    /\ responses' = responses + 1

\* await connectImap(imap) resolves
ConnectReady ==
    /\ pc = "connect"
    /\ pc' = "open"
    /\ imapState' = "ready"
    /\ UNCHANGED <<auxVars, boxFlags, clockStamped,
                   flowVars, page, pageSize, unreadOnly, boxTotal, uids, planVars,
                   fetchVars, response, responses>>

\* await connectImap(imap) rejects
ConnectFail ==
    /\ pc = "connect"
    /\ CatchError("connect")
    /\ UNCHANGED <<auxVars, boxFlags, clockStamped,
                   flowVars, page, pageSize, unreadOnly, boxTotal, uids, planVars,
                   fetchVars>>

\* await openBox(boxName, true) resolves with box.messages.total = total
OpenBoxOk(maxUid) ==
    /\ pc = "open"
    /\ \E total \in 0..maxUid :
        /\ boxTotal' = total
        /\ IF total = 0
           THEN /\ imapState' = "ended"
                /\ response' = Success(<<>>, EmptyBoxPagination(pageSize))
                /\ responses' = responses + 1
                /\ pc' = "done"
           ELSE /\ pc' = "search"
                /\ UNCHANGED <<imapState, response, responses>>
    /\ UNCHANGED <<auxVars, boxFlags, clockStamped,
                   flowVars, page, pageSize, unreadOnly, uids, planVars, fetchVars>>

OpenBoxFail ==
    /\ pc = "open"
    /\ CatchError("openBox")
    /\ UNCHANGED <<auxVars, boxFlags, clockStamped,
                   flowVars, page, pageSize, unreadOnly, boxTotal, uids, planVars,
                   fetchVars>>

\* the UID sets the server can answer a SEARCH with, for a box that holds
\* the UIDs 1..boxTotal: all of them for ALL, any part of them for UNSEEN
SearchAnswers ==
    {S \in SUBSET (1..boxTotal) : unreadOnly \/ S = 1..boxTotal}

\* await search(searchCriteria) resolves; the window is planned and either
\* the empty page is answered or the fetch is opened and the timer armed
SearchOk ==
    /\ pc = "search"
    /\ \E S \in SearchAnswers :
        LET u == Ascending(S)
            tm == Len(u)
            tp == TotalPages(tm, pageSize)
            pu == PageUids(u, page, pageSize)
        IN /\ uids' = u
           /\ totalMessages' = tm
           /\ totalPages' = tp
           /\ startIdx' = StartIdx(tm, page, pageSize)
           /\ endIdx' = EndIdx(tm, page, pageSize)
           /\ pageUids' = pu
           /\ IF Len(pu) = 0
              THEN /\ imapState' = "ended"
                   /\ response' = Success(<<>>, Pagination(page, pageSize, tm, tp))
                   /\ responses' = responses + 1
                   /\ pc' = "done"
                   /\ timer' = timer
              ELSE /\ pc' = "fetching"
                   /\ timer' = "armed"
                   /\ UNCHANGED <<imapState, response, responses>>
    /\ UNCHANGED <<auxVars, boxFlags, clockStamped,
                   flowVars, logged, page, pageSize, unreadOnly, boxTotal, results, processed,
                   completed, settled, streamEnd, streamError, msgs, chunksSent,
                   now>>

SearchFail ==
    /\ pc = "search"
    /\ CatchError("search")
    /\ UNCHANGED <<auxVars, boxFlags, clockStamped,
                   flowVars, page, pageSize, unreadOnly, boxTotal, uids, planVars,
                   fetchVars>>

PlanNext ==
    \/ ConnectReady
    \/ ConnectFail
    \/ OpenBoxOk(PlanMaxUid)
    \/ OpenBoxFail
    \/ SearchOk
    \/ SearchFail

PlanSpec == PlanInit /\ [][PlanNext]_vars

\* ------------------------------------------------------ the fetch promise
\* A closure of fetch.on('message') is a record of its captured variables:
\* uid, buffer, and whether its 'end' handler is suspended at
\* `await simpleParser(buffer)`.  A closure whose 'end' handler has returned
\* can run nothing any more and leaves the bag.
Chunks == {BadChunk, NoDate} \cup (1..MaxDate)

NewMessage == [uid |-> Undefined, buffer |-> <<>>, parsing |-> FALSE]

Replace(bag, old, new) == (bag (-) SetToBag({old})) (+) SetToBag({new})

Remove(bag, old) == bag (-) SetToBag({old})

Receiving == {m \in BagToSet(msgs) : ~m.parsing}

Parsing == {m \in BagToSet(msgs) : m.parsing}

NotEnded == BagCardinality(msgs) - BagCardinality([m \in Parsing |-> msgs[m]])

\* simpleParser(buffer) rejects
ParseFails(buffer) == BadChunk \in Range(buffer)

\* parsed.date: the first Date header of the buffer, NoDate when it has none
ParsedDate(buffer) ==
    IF \E i \in 1..Len(buffer) : buffer[i] > NoDate
    THEN buffer[CHOOSE i \in 1..Len(buffer) :
                    /\ buffer[i] > NoDate
                    /\ \A j \in 1..(i - 1) : buffer[j] <= NoDate]
    ELSE NoDate

EmailObj(uid, t) == [id |-> uid, timestamp |-> t]

\* results.sort((a, b) => b.timestamp - a.timestamp): stable, descending
RECURSIVE InsertDesc(_, _)
InsertDesc(sorted, e) ==
    IF sorted = <<>> THEN <<e>>
    ELSE IF Head(sorted).timestamp >= e.timestamp
         THEN <<Head(sorted)>> \o InsertDesc(Tail(sorted), e)
         ELSE <<e>> \o sorted

RECURSIVE SortDesc(_)
SortDesc(list) ==
    IF list = <<>> THEN <<>>
    ELSE InsertDesc(SortDesc(SubSeq(list, 1, Len(list) - 1)), list[Len(list)])

\* console.log(`Empty buffer for UID ${uid}`)
EmptyBufferLog(uid) == <<"empty", uid>>

\* console.error(`Parse error for UID ${uid}:`, err.message)
ParseErrorLog(uid) == <<"parse", uid>>

SkipMessageUndefinedOnly(uid, seen) == uid = Undefined

\* if (!uid || processed.has(uid)) return;
SkipMessage(uid, seen) == uid = Undefined \/ uid \in seen

FetchOpened == timer # "none"

\* a callback that answers by itself instead of leaving it to the promise
ResolveRespondingEachTime(list, by) ==
    /\ settled' = by
    /\ imapState' = "ended"
    /\ response' = Success(list, Pagination(page, pageSize, totalMessages, totalPages))
    /\ responses' = responses + 1
    /\ pc' = "done"

ResolveCountingReturned(list, by) ==
    IF settled = "pending"
    THEN /\ settled' = by
         /\ imapState' = "ended"
         /\ response' = Success(list, Pagination(page, pageSize, Len(list),
                                                TotalPages(Len(list), pageSize)))
         /\ responses' = responses + 1
         /\ pc' = "done"
    ELSE UNCHANGED <<settled, imapState, response, responses, pc>>

\* resolve(list) followed, when it is the first to settle the promise, by the
\* continuation of the await: imap.end() and res.json({emails, pagination})
Resolve(list, by) ==
    IF settled = "pending"
    THEN /\ settled' = by
         /\ imapState' = "ended"
         /\ response' = Success(list, Pagination(page, pageSize, totalMessages, totalPages))
         /\ responses' = responses + 1
         /\ pc' = "done"
    ELSE UNCHANGED <<settled, imapState, response, responses, pc>>

\* reject(err) followed, when it is the first to settle the promise, by the
\* catch block of the handler
Reject(message, by) ==
    IF settled = "pending"
    THEN /\ settled' = by
         /\ CatchError(message)
    ELSE UNCHANGED <<settled, imapState, response, responses, pc>>

\* fetch.on('message'): a new closure with its own uid and buffer
FetchMessage ==
    /\ FetchOpened
    /\ completed + NotEnded < MaxMsgs
    /\ msgs' = msgs (+) SetToBag({NewMessage})
    /\ UNCHANGED <<auxVars, boxFlags, clockStamped,
                   flowVars, logged, page, pageSize, unreadOnly, pc, imapState, boxTotal, uids,
                   planVars, results, processed, completed, timer, settled,
                   streamEnd, streamError, chunksSent, now, response, responses>>

\* stream.on('data'): buffer = Buffer.concat([buffer, chunk]).  Only closures
\* before their 'end' are followed: afterwards `buffer` is never read again
\* (simpleParser holds the Buffer it was given, concat builds a new one).
BodyData(m) ==
    /\ chunksSent < MaxChunks
    /\ chunksSent' = chunksSent + 1
    /\ \E c \in Chunks :
        msgs' = Replace(msgs, m, [m EXCEPT !.buffer = Append(@, c)])
    /\ UNCHANGED <<auxVars, boxFlags, clockStamped,
                   flowVars, logged, page, pageSize, unreadOnly, pc, imapState, boxTotal, uids,
                   planVars, results, processed, completed, timer, settled,
                   streamEnd, streamError, now, response, responses>>

\* openBox(boxName, true): the second argument is readOnly
ReadOnly == TRUE

\* imap.fetch(pageUids, {bodies: '', struct: true}): no markSeen option
MarkSeen == FALSE

FetchAlwaysMarksSeen == TRUE

\* the server sets \Seen on a message whose body it sends only for a fetch
\* that asks for it (BODY[] in place of BODY.PEEK[]) in a mailbox selected
\* read-write
FetchMarksSeen == MarkSeen /\ ~ReadOnly

\* the flags the mailbox holds for a UID, which attrs.flags reports
FlagsOf(uid) == {f \in Flags : <<uid, f>> \in boxFlags}

\* msg.once('attributes'): uid = attrs.uid, for any of the requested UIDs.
\* The listener is removed after its first call.
MsgAttributes(m) ==
    /\ m.uid = Undefined
    /\ \E u \in Range(pageUids) :
        /\ msgs' = Replace(msgs, m, [m EXCEPT !.uid = u])
        /\ boxFlags' = IF FetchMarksSeen THEN boxFlags \cup {<<u, Seen>>}
                                         ELSE boxFlags
    /\ UNCHANGED <<auxVars, clockStamped,
                   flowVars, logged, page, pageSize, unreadOnly, pc, imapState, boxTotal, uids,
                   planVars, results, processed, completed, timer, settled,
                   streamEnd, streamError, chunksSent, now, response, responses>>

\* an 'end' handler that adds the UID to `processed` only after the
\* empty-buffer check
MsgEndMarksAfterEmptyCheck(m) ==
    /\ completed' = completed + 1
    /\ IF SkipMessage(m.uid, processed)
       THEN /\ msgs' = Remove(msgs, m)
            /\ UNCHANGED <<processed, logged>>
       ELSE IF Len(m.buffer) = 0
            THEN /\ msgs' = Remove(msgs, m)
                 /\ logged' = logged \cup {EmptyBufferLog(m.uid)}
                 /\ processed' = processed
            ELSE /\ msgs' = Replace(msgs, m, [m EXCEPT !.parsing = TRUE])
                 /\ logged' = logged
                 /\ processed' = processed \cup {m.uid}
    /\ UNCHANGED <<auxVars, boxFlags, clockStamped,
                   flowVars, page, pageSize, unreadOnly, pc, imapState, boxTotal, uids,
                   planVars, results, timer, settled, streamEnd, streamError,
                   chunksSent, now, response, responses>>

MsgEndNoEmptyCheck(m) ==
    /\ completed' = completed + 1
    /\ IF SkipMessage(m.uid, processed)
       THEN /\ msgs' = Remove(msgs, m)
            /\ UNCHANGED <<processed, logged>>
       ELSE /\ processed' = processed \cup {m.uid}
            /\ msgs' = Replace(msgs, m, [m EXCEPT !.parsing = TRUE])
            /\ logged' = logged
    /\ UNCHANGED <<auxVars, boxFlags, clockStamped,
                   flowVars, page, pageSize, unreadOnly, pc, imapState, boxTotal, uids,
                   planVars, results, timer, settled, streamEnd, streamError,
                   chunksSent, now, response, responses>>

\* msg.once('end'), up to the await of simpleParser; it may come before any
\* attributes or data event of the message
MsgEnd(m) ==
    /\ completed' = completed + 1
    /\ IF SkipMessage(m.uid, processed)
       THEN /\ msgs' = Remove(msgs, m)
            /\ UNCHANGED <<processed, logged>>
       ELSE /\ processed' = processed \cup {m.uid}
            /\ IF Len(m.buffer) = 0
               THEN /\ msgs' = Remove(msgs, m)
                    /\ logged' = logged \cup {EmptyBufferLog(m.uid)}
               ELSE /\ msgs' = Replace(msgs, m, [m EXCEPT !.parsing = TRUE])
                    /\ logged' = logged
    /\ UNCHANGED <<auxVars, boxFlags, clockStamped,
                   flowVars, page, pageSize, unreadOnly, pc, imapState, boxTotal, uids,
                   planVars, results, timer, settled, streamEnd, streamError,
                   chunksSent, now, response, responses>>

\* msg.attributes as the 'end' handler reads it: the message object is the
\* library's event emitter, and the 'attributes' listener stores attrs.uid
\* only, so the property is never set
MsgObjectAttributes == Undefined

\* unread: msg.attributes ? !msg.attributes.flags.includes('\\Seen') : true
Unread(attributes) ==
    IF attributes = Undefined THEN TRUE ELSE Seen \notin attributes

\* starred: msg.attributes ? msg.attributes.flags.includes('\\Flagged') : false
Starred(attributes) ==
    IF attributes = Undefined THEN FALSE ELSE Flagged \in attributes

WithFlags(obj, attributes) ==
    [id |-> obj.id, timestamp |-> obj.timestamp,
     unread |-> Unread(attributes), starred |-> Starred(attributes)]

\* simpleParser resolves: the rest of the 'end' handler builds emailObj and
\* pushes it; a buffer without Date takes Date.now()
ParseResolve(m) ==
    /\ ~ParseFails(m.buffer)
    /\ msgs' = Remove(msgs, m)
    /\ IF ParsedDate(m.buffer) # NoDate
       THEN /\ results' = Append(results,
                    WithFlags(EmailObj(m.uid, ParsedDate(m.buffer)), MsgObjectAttributes))
            /\ now' = now
            /\ clockStamped' = clockStamped
       ELSE \E t \in now..MaxDate :
            /\ now' = t
            /\ results' = Append(results,
                    WithFlags(EmailObj(m.uid, t), MsgObjectAttributes))
            /\ clockStamped' = clockStamped \cup {m.uid}
    /\ UNCHANGED <<auxVars, boxFlags,
                   flowVars, logged, page, pageSize, unreadOnly, pc, imapState, boxTotal, uids,
                   planVars, processed, completed, timer, settled, streamEnd,
                   streamError, chunksSent, response, responses>>

ParseRejectFailsPage(m) ==
    /\ ParseFails(m.buffer)
    /\ msgs' = Remove(msgs, m)
    /\ logged' = logged \cup {ParseErrorLog(m.uid)}
    /\ Reject("parse", "error")
    /\ UNCHANGED <<auxVars, boxFlags, clockStamped,
                   flowVars, page, pageSize, unreadOnly, boxTotal, uids,
                   planVars, results, processed, completed, timer,
                   streamEnd, streamError, chunksSent, now>>

\* simpleParser rejects: catch (err) logs and drops the message
ParseReject(m) ==
    /\ ParseFails(m.buffer)
    /\ msgs' = Remove(msgs, m)
    /\ logged' = logged \cup {ParseErrorLog(m.uid)}
    /\ UNCHANGED <<auxVars, boxFlags, clockStamped,
                   flowVars, page, pageSize, unreadOnly, pc, imapState, boxTotal, uids,
                   planVars, results, processed, completed, timer, settled,
                   streamEnd, streamError, chunksSent, now, response, responses>>

FetchTimeoutLogsOnly ==
    /\ timer = "armed"
    /\ timer' = "fired"
    /\ UNCHANGED <<auxVars, boxFlags, clockStamped,
                   flowVars, logged, page, pageSize, unreadOnly, pc, imapState, boxTotal, uids,
                   planVars, results, processed, completed, settled, streamEnd,
                   streamError, msgs, chunksSent, now, response, responses>>

FetchTimeoutRejects ==
    /\ timer = "armed"
    /\ timer' = "fired"
    /\ Reject("timeout", "timeout")
    /\ UNCHANGED <<auxVars, boxFlags, clockStamped,
                   flowVars, logged, page, pageSize, unreadOnly, boxTotal, uids, planVars,
                   results, processed, completed, streamEnd, streamError,
                   msgs, chunksSent, now>>

\* the setTimeout callback: resolve(results)
FetchTimeout ==
    /\ timer = "armed"
    /\ timer' = "fired"
    /\ Resolve(results, "timeout")
    /\ UNCHANGED <<auxVars, boxFlags, clockStamped,
                   flowVars, logged, page, pageSize, unreadOnly, boxTotal, uids, planVars,
                   results, processed, completed, streamEnd, streamError,
                   msgs, chunksSent, now>>

\* clearTimeout(fetchTimeout)
ClearTimeout == IF timer = "armed" THEN "cleared" ELSE timer

FetchErrorRejects ==
    /\ FetchOpened
    /\ ~streamError
    /\ streamError' = TRUE
    /\ timer' = ClearTimeout
    /\ Reject("fetch", "error")
    /\ UNCHANGED <<auxVars, boxFlags, clockStamped,
                   flowVars, logged, page, pageSize, unreadOnly, boxTotal, uids, planVars,
                   results, processed, completed, streamEnd, msgs, chunksSent,
                   now>>

\* fetch.once('error'): clearTimeout; resolve(results).  It may come before
\* or after 'end' and after the timer has fired.
FetchError ==
    /\ FetchOpened
    /\ ~streamError
    /\ streamError' = TRUE
    /\ timer' = ClearTimeout
    /\ Resolve(results, "error")
    /\ UNCHANGED <<auxVars, boxFlags, clockStamped,
                   flowVars, logged, page, pageSize, unreadOnly, boxTotal, uids, planVars,
                   results, processed, completed, streamEnd, msgs, chunksSent,
                   now>>

FetchEndWhenAllCounted ==
    /\ FetchOpened
    /\ ~streamEnd
    /\ streamEnd' = TRUE
    /\ timer' = ClearTimeout
    /\ results' = SortDesc(results)
    /\ IF completed >= Len(pageUids)
       THEN Resolve(results', "end")
       ELSE UNCHANGED <<settled, imapState, response, responses, pc>>
    /\ UNCHANGED <<auxVars, boxFlags, clockStamped,
                   flowVars, logged, page, pageSize, unreadOnly, boxTotal, uids, planVars,
                   processed, completed, streamError, msgs, chunksSent, now>>

\* fetch.once('end'): clearTimeout; results.sort(...); resolve(results)
FetchEnd ==
    /\ FetchOpened
    /\ ~streamEnd
    /\ streamEnd' = TRUE
    /\ timer' = ClearTimeout
    /\ results' = SortDesc(results)
    /\ Resolve(results', "end")
    /\ UNCHANGED <<auxVars, boxFlags, clockStamped,
                   flowVars, logged, page, pageSize, unreadOnly, boxTotal, uids, planVars,
                   processed, completed, streamError, msgs, chunksSent, now>>

Next ==
    \/ ConnectReady
    \/ ConnectFail
    \/ OpenBoxOk(MaxUid)
    \/ OpenBoxFail
    \/ SearchOk
    \/ SearchFail
    \/ FetchMessage
    \/ \E m \in Receiving : BodyData(m)
    \/ \E m \in Receiving : MsgAttributes(m)
    \/ \E m \in Receiving : MsgEnd(m)
    \/ \E m \in Parsing : ParseResolve(m)
    \/ \E m \in Parsing : ParseReject(m)
    \/ FetchTimeout
    \/ FetchError
    \/ FetchEnd

Spec == Init /\ [][Next]_vars

\* the same handler on mailboxes of up to WideMaxUid messages and pages up
\* to WideMaxPage
WideInit == InitWith(WideMaxPage, WideMaxPageSize)

WideNext ==
    \/ ConnectReady
    \/ ConnectFail
    \/ OpenBoxOk(WideMaxUid)
    \/ OpenBoxFail
    \/ SearchOk
    \/ SearchFail
    \/ FetchMessage
    \/ \E m \in Receiving : BodyData(m)
    \/ \E m \in Receiving : MsgAttributes(m)
    \/ \E m \in Receiving : MsgEnd(m)
    \/ \E m \in Parsing : ParseResolve(m)
    \/ \E m \in Parsing : ParseReject(m)
    \/ FetchTimeout
    \/ FetchError
    \/ FetchEnd

WideSpec == WideInit /\ [][WideNext]_vars

\* the timer callback runs once its delay has elapsed
LiveSpec == Spec /\ WF_vars(FetchTimeout)

\* the same handler on a mailbox whose messages carry up to MaxFlags flags
FlagInit ==
    /\ page \in 1..MaxPage
    /\ pageSize \in 1..MaxPageSize
    /\ unreadOnly \in BOOLEAN
    /\ boxFlags \in {F \in SUBSET ((1..MaxUid) \X Flags) : Cardinality(F) <= MaxFlags}
    /\ InitState
    /\ AuxInit

FlagSpec == FlagInit /\ [][Next]_vars

\* ----------------------------------- the header-only handler (part_002)
\* The variant of the handler that fetches HEADER.FIELDS only, with a
\* 25-second timer (src/unnamed/part_002, lines 95-209).  Connecting,
\* opening the mailbox, the failure of the search, the 'message', 'data'
\* and 'attributes' listeners and fetch.once('end') read as in the handler
\* above; the search continuation, the message 'end' handler, the timer and
\* fetch.once('error') differ.  `completed` counts the messages that have
\* ended, to bound the stream.

\* await search(searchCriteria) resolves: the window is planned, the timer is
\* armed and imap.fetch(pageUids, ...) is called, also for an empty slice.
\* imap.fetch is library code: given an empty list it either throws inside
\* the executor, which rejects the promise, or returns a stream.
HdrSearchOk ==
    /\ pc = "search"
    /\ \E S \in SearchAnswers, throws \in BOOLEAN :
        LET u == Ascending(S)
            tm == Len(u)
            tp == TotalPages(tm, pageSize)
            pu == PageUids(u, page, pageSize)
        IN /\ uids' = u
           /\ totalMessages' = tm
           /\ totalPages' = tp
           /\ startIdx' = StartIdx(tm, page, pageSize)
           /\ endIdx' = EndIdx(tm, page, pageSize)
           /\ pageUids' = pu
           /\ timer' = "armed"
           /\ throws => Len(pu) = 0
           /\ IF throws
              THEN Reject("Nothing to fetch", "error")
              ELSE /\ pc' = "fetching"
                   /\ UNCHANGED <<settled, imapState, response, responses>>
    /\ UNCHANGED <<auxVars, boxFlags, clockStamped,
                   flowVars, logged, page, pageSize, unreadOnly, boxTotal,
                   results, processed, completed, streamEnd, streamError,
                   msgs, chunksSent, now>>

\* msg.once('end') up to `await simpleParser(headers)`: no check of uid or
\* of the length of headers
HdrMsgEnd(m) ==
    /\ completed' = completed + 1
    /\ msgs' = Replace(msgs, m, [m EXCEPT !.parsing = TRUE])
    /\ UNCHANGED <<auxVars, boxFlags, clockStamped,
                   flowVars, logged, page, pageSize, unreadOnly, pc, imapState,
                   boxTotal, uids, planVars, results, processed, timer,
                   settled, streamEnd, streamError, chunksSent, now, response,
                   responses>>

\* simpleParser resolves: results.push({id: uid, ...}).  Without an
\* attributes event `flags` is undefined, flags.includes throws and the
\* catch logs it: nothing is pushed.
HdrParseResolve(m) ==
    /\ ~ParseFails(m.buffer)
    /\ msgs' = Remove(msgs, m)
    /\ IF m.uid = Undefined
       THEN /\ logged' = logged \cup {ParseErrorLog(Undefined)}
            /\ UNCHANGED <<results, now>>
       ELSE /\ logged' = logged
            /\ IF ParsedDate(m.buffer) # NoDate
               THEN /\ results' = Append(results, EmailObj(m.uid, ParsedDate(m.buffer)))
                    /\ now' = now
               ELSE \E t \in now..MaxDate :
                    /\ now' = t
                    /\ results' = Append(results, EmailObj(m.uid, t))
    /\ UNCHANGED <<auxVars, boxFlags, clockStamped,
                   flowVars, page, pageSize, unreadOnly, pc, imapState,
                   boxTotal, uids, planVars, processed, completed, timer,
                   settled, streamEnd, streamError, chunksSent, response,
                   responses>>

\* simpleParser rejects: console.error('Parse error:', err.message)
HdrParseReject(m) ==
    /\ ParseFails(m.buffer)
    /\ msgs' = Remove(msgs, m)
    /\ logged' = logged \cup {ParseErrorLog(Undefined)}
    /\ UNCHANGED <<auxVars, boxFlags, clockStamped,
                   flowVars, page, pageSize, unreadOnly, pc, imapState,
                   boxTotal, uids, planVars, results, processed, completed,
                   timer, settled, streamEnd, streamError, chunksSent, now,
                   response, responses>>

\* the setTimeout callback: reject(new Error('Fetch timeout'))
HdrFetchTimeout ==
    /\ timer = "armed"
    /\ timer' = "fired"
    /\ Reject("Fetch timeout", "timeout")
    /\ UNCHANGED <<auxVars, boxFlags, clockStamped,
                   flowVars, logged, page, pageSize, unreadOnly, boxTotal, uids,
                   planVars, results, processed, completed, streamEnd,
                   streamError, msgs, chunksSent, now>>

\* fetch.once('error'): clearTimeout(fetchTimeout); reject(err)
HdrFetchError ==
    /\ FetchOpened
    /\ ~streamError
    /\ streamError' = TRUE
    /\ timer' = ClearTimeout
    /\ Reject("fetch", "error")
    /\ UNCHANGED <<auxVars, boxFlags, clockStamped,
                   flowVars, logged, page, pageSize, unreadOnly, boxTotal, uids,
                   planVars, results, processed, completed, streamEnd, msgs,
                   chunksSent, now>>

\* the stream exists: imap.fetch returned it
HdrStream == FetchOpened /\ response # Failure("Nothing to fetch")

HdrNext ==
    \/ ConnectReady
    \/ ConnectFail
    \/ OpenBoxOk(MaxUid)
    \/ OpenBoxFail
    \/ HdrSearchOk
    \/ SearchFail
    \/ HdrStream /\ FetchMessage
    \/ \E m \in Receiving : BodyData(m)
    \/ \E m \in Receiving : MsgAttributes(m)
    \/ \E m \in Receiving : HdrMsgEnd(m)
    \/ \E m \in Parsing : HdrParseResolve(m)
    \/ \E m \in Parsing : HdrParseReject(m)
    \/ HdrFetchTimeout
    \/ HdrStream /\ HdrFetchError
    \/ HdrStream /\ FetchEnd

HdrSpec == Init /\ [][HdrNext]_vars

\* ------------------------------- the node-imap handler of server.js
\* app.post("/api/emails") of src/server.js, lines 91-197: the page size is
\* the constant 25, the empty result is answered after the search, the
\* fetch promise has no timer, fetch 'error' rejects, fetch 'end' resolves
\* without sorting and the catch block calls imap.end().  The message
\* listeners are those of the header-only handler.
SrvPageSize == 25

SrvInit ==
    /\ page \in 1..MaxPage
    /\ pageSize = SrvPageSize
    /\ unreadOnly \in BOOLEAN
    /\ boxFlags = {}
    /\ InitState
    /\ AuxInit

\* catch (err): imap.end(); res.status(500).json(...)
SrvCatchError(message) ==
    /\ pc' = "done"
    /\ imapState' = "ended"
    /\ response' = Failure(message)
    /\ responses' = responses + 1

SrvReject(message, by) ==
    IF settled = "pending"
    THEN /\ settled' = by
         /\ SrvCatchError(message)
    ELSE UNCHANGED <<settled, imapState, response, responses, pc>>

SrvConnectFail ==
    /\ pc = "connect"
    /\ SrvCatchError("connect")
    /\ UNCHANGED <<auxVars, boxFlags, clockStamped,
                   flowVars, page, pageSize, unreadOnly, boxTotal, uids,
                   planVars, fetchVars>>

\* await openBox(boxName, true) resolves; the box is not looked at
SrvOpenBoxOk ==
    /\ pc = "open"
    /\ pc' = "search"
    /\ boxTotal' \in 0..MaxUid
    /\ UNCHANGED <<auxVars, boxFlags, clockStamped,
                   flowVars, page, pageSize, unreadOnly, imapState, uids,
                   planVars, fetchVars, response, responses>>

SrvOpenBoxFail ==
    /\ pc = "open"
    /\ SrvCatchError("openBox")
    /\ UNCHANGED <<auxVars, boxFlags, clockStamped,
                   flowVars, page, pageSize, unreadOnly, boxTotal, uids,
                   planVars, fetchVars>>

\* await search(searchCriteria) resolves: an empty result is answered as
\* page 1; otherwise the window is planned and imap.fetch(pageUids, ...) is
\* called with no timer.  For an empty slice imap.fetch, library code,
\* either throws inside the executor or returns a stream.
SrvSearchOk ==
    /\ pc = "search"
    /\ \E S \in SearchAnswers, throws \in BOOLEAN :
        LET u == Ascending(S)
            tm == Len(u)
            tp == TotalPages(tm, pageSize)
            pu == PageUids(u, page, pageSize)
        IN /\ uids' = u
           /\ totalMessages' = tm
           /\ throws => (tm > 0 /\ Len(pu) = 0)
           /\ IF tm = 0
              THEN /\ imapState' = "ended"
                   /\ response' = Success(<<>>, EmptyBoxPagination(pageSize))
                   /\ responses' = responses + 1
                   /\ pc' = "done"
                   /\ UNCHANGED <<totalPages, startIdx, endIdx, pageUids, settled>>
              ELSE /\ totalPages' = tp
                   /\ startIdx' = StartIdx(tm, page, pageSize)
                   /\ endIdx' = EndIdx(tm, page, pageSize)
                   /\ pageUids' = pu
                   /\ IF throws
                      THEN SrvReject("Nothing to fetch", "error")
                      ELSE /\ pc' = "fetching"
                           /\ UNCHANGED <<settled, imapState, response, responses>>
    /\ UNCHANGED <<auxVars, boxFlags, clockStamped,
                   flowVars, logged, page, pageSize, unreadOnly, boxTotal,
                   results, processed, completed, timer, streamEnd,
                   streamError, msgs, chunksSent, now>>

SrvSearchFail ==
    /\ pc = "search"
    /\ SrvCatchError("search")
    /\ UNCHANGED <<auxVars, boxFlags, clockStamped,
                   flowVars, page, pageSize, unreadOnly, boxTotal, uids,
                   planVars, fetchVars>>

\* the stream exists: imap.fetch returned it
SrvStream ==
    /\ pc = "fetching" \/ settled # "pending"
    /\ response # Failure("Nothing to fetch")

\* fetch.on('message')
SrvFetchMessage ==
    /\ SrvStream
    /\ completed + NotEnded < MaxMsgs
    /\ msgs' = msgs (+) SetToBag({NewMessage})
    /\ UNCHANGED <<auxVars, boxFlags, clockStamped,
                   flowVars, logged, page, pageSize, unreadOnly, pc, imapState,
                   boxTotal, uids, planVars, results, processed, completed,
                   timer, settled, streamEnd, streamError, chunksSent, now,
                   response, responses>>

\* fetch.once('error', reject)
SrvFetchError ==
    /\ SrvStream
    /\ ~streamError
    /\ streamError' = TRUE
    /\ SrvReject("fetch", "error")
    /\ UNCHANGED <<auxVars, boxFlags, clockStamped,
                   flowVars, logged, page, pageSize, unreadOnly, boxTotal, uids,
                   planVars, results, processed, completed, timer, streamEnd,
                   msgs, chunksSent, now>>

\* fetch.once('end', () => resolve(results))
SrvFetchEnd ==
    /\ SrvStream
    /\ ~streamEnd
    /\ streamEnd' = TRUE
    /\ Resolve(results, "end")
    /\ UNCHANGED <<auxVars, boxFlags, clockStamped,
                   flowVars, logged, page, pageSize, unreadOnly, boxTotal, uids,
                   planVars, results, processed, completed, timer,
                   streamError, msgs, chunksSent, now>>

\* a parser call that has been made settles
SrvParseSettles ==
    \E m \in Parsing : HdrParseResolve(m) \/ HdrParseReject(m)

SrvNext ==
    \/ ConnectReady
    \/ SrvConnectFail
    \/ SrvOpenBoxOk
    \/ SrvOpenBoxFail
    \/ SrvSearchOk
    \/ SrvSearchFail
    \/ SrvFetchMessage
    \/ \E m \in Receiving : BodyData(m)
    \/ \E m \in Receiving : MsgAttributes(m)
    \/ \E m \in Receiving : HdrMsgEnd(m)
    \/ SrvParseSettles
    \/ SrvFetchError
    \/ SrvFetchEnd

SrvSpec == SrvInit /\ [][SrvNext]_vars

\* simpleParser settles every call; the stream is the server's to drive and
\* the handler sets no timer, so nothing else is bound to happen
SrvLiveSpec == SrvSpec /\ WF_vars(SrvParseSettles)

\* ------------------------------------ the ImapFlow handler of server.js
\* app.post("/api/emails") of src/server.js, lines 461-550.  The handler is
\* one async function that fetches the UIDs of the page one after the other,
\* so each action is the code between two awaits.  imapState is the client:
\* new, ready (connected), ended (logged out), logoutFailed (logout was
\* called and rejected).  results is the array `emails`.
flowUnused == <<processed, completed, timer, settled, streamEnd, streamError,
                msgs, chunksSent>>

\* console.error(`Error fetching UID ${uid}:`, err.message)
FetchErrorLog(uid, message) == <<message, uid>>

\* the outer catch: res.status(500).json({ error: err.message })
FlowCatchError(message) ==
    /\ pc' = "done"
    /\ response' = Failure(message)
    /\ responses' = responses + 1

\* lock.release()
FlowRelease ==
    /\ lock' = "released"
    /\ lockReleases' = lockReleases + 1

\* the inner catch: lock.release(); throw err; then the outer catch
FlowInnerCatch(message) ==
    /\ FlowRelease
    /\ FlowCatchError(message)

\* await client.connect() resolves
FlowConnectOk ==
    /\ pc = "connect"
    /\ pc' = "lock"
    /\ imapState' = "ready"
    /\ UNCHANGED <<auxVars, boxFlags, clockStamped,
                   page, pageSize, unreadOnly, boxTotal, uids, planVars,
                   results, now, logged, flowUnused, flowVars, response,
                   responses>>

\* await client.connect() rejects
FlowConnectFail ==
    /\ pc = "connect"
    /\ FlowCatchError("connect")
    /\ UNCHANGED <<auxVars, boxFlags, clockStamped,
                   page, pageSize, unreadOnly, imapState, boxTotal, uids,
                   planVars, results, now, logged, flowUnused, flowVars>>

\* await client.getMailboxLock(boxName) resolves
FlowLockOk ==
    /\ pc = "lock"
    /\ pc' = "status"
    /\ lock' = "held"
    /\ UNCHANGED <<auxVars, boxFlags, clockStamped,
                   page, pageSize, unreadOnly, imapState, boxTotal, uids,
                   planVars, results, now, logged, flowUnused, lockReleases,
                   cursor, response, responses>>

\* await client.getMailboxLock(boxName) rejects: outside the inner try
FlowLockFail ==
    /\ pc = "lock"
    /\ FlowCatchError("getMailboxLock")
    /\ UNCHANGED <<auxVars, boxFlags, clockStamped,
                   page, pageSize, unreadOnly, imapState, boxTotal, uids,
                   planVars, results, now, logged, flowUnused, flowVars>>

\* await client.status(...) resolves; an empty mailbox releases the lock and
\* awaits the logout
FlowStatusOk ==
    /\ pc = "status"
    /\ \E total \in 0..MaxUid :
        /\ boxTotal' = total
        /\ IF total = 0
           THEN /\ FlowRelease
                /\ pc' = "logoutEmpty"
           ELSE /\ pc' = "search"
                /\ UNCHANGED <<lock, lockReleases>>
    /\ UNCHANGED <<auxVars, boxFlags, clockStamped,
                   page, pageSize, unreadOnly, imapState, uids, planVars,
                   results, now, logged, flowUnused, cursor, response,
                   responses>>

FlowStatusFail ==
    /\ pc = "status"
    /\ FlowInnerCatch("status")
    /\ UNCHANGED <<auxVars, boxFlags, clockStamped,
                   page, pageSize, unreadOnly, imapState, boxTotal, uids,
                   planVars, results, now, logged, flowUnused, cursor>>

\* await client.logout() of the empty mailbox resolves
FlowLogoutEmptyOk ==
    /\ pc = "logoutEmpty"
    /\ imapState' = "ended"
    /\ response' = Success(<<>>, EmptyBoxPagination(pageSize))
    /\ responses' = responses + 1
    /\ pc' = "done"
    /\ UNCHANGED <<auxVars, boxFlags, clockStamped,
                   page, pageSize, unreadOnly, boxTotal, uids, planVars,
                   results, now, logged, flowUnused, flowVars>>

\* await client.logout() rejects: the inner catch releases the lock again
FlowLogoutEmptyFail ==
    /\ pc = "logoutEmpty"
    /\ imapState' = "logoutFailed"
    /\ FlowInnerCatch("logout")
    /\ UNCHANGED <<auxVars, boxFlags, clockStamped,
                   page, pageSize, unreadOnly, boxTotal, uids, planVars,
                   results, now, logged, flowUnused, cursor>>

\* await client.search(searchCriteria) resolves: the window is planned and
\* the loop is entered; an empty slice goes straight to lock.release()
FlowSearchOk ==
    /\ pc = "search"
    /\ \E S \in SearchAnswers :
        LET u == Ascending(S)
            tm == Len(u)
            pu == PageUids(u, page, pageSize)
        IN /\ uids' = u
           /\ totalMessages' = tm
           /\ totalPages' = TotalPages(tm, pageSize)
           /\ startIdx' = StartIdx(tm, page, pageSize)
           /\ endIdx' = EndIdx(tm, page, pageSize)
           /\ pageUids' = pu
           /\ IF Len(pu) = 0
              THEN /\ FlowRelease
                   /\ pc' = "logout"
                   /\ cursor' = cursor
              ELSE /\ pc' = "fetchOne"
                   /\ cursor' = 1
                   /\ UNCHANGED <<lock, lockReleases>>
    /\ UNCHANGED <<auxVars, boxFlags, clockStamped,
                   page, pageSize, unreadOnly, imapState, boxTotal, results,
                   now, logged, flowUnused, response, responses>>

FlowSearchFail ==
    /\ pc = "search"
    /\ FlowInnerCatch("search")
    /\ UNCHANGED <<auxVars, boxFlags, clockStamped,
                   page, pageSize, unreadOnly, imapState, boxTotal, uids,
                   planVars, results, now, logged, flowUnused, cursor>>

\* the end of one iteration of `for (const uid of pageUids)`: the next UID,
\* or after the last one lock.release() and the await of the logout
FlowAdvance ==
    IF cursor < Len(pageUids)
    THEN /\ cursor' = cursor + 1
         /\ pc' = "fetchOne"
         /\ UNCHANGED <<lock, lockReleases>>
    ELSE /\ cursor' = cursor
         /\ pc' = "logout"
         /\ FlowRelease

\* await client.fetchOne(uid, ...) resolves
FlowFetchOneOk ==
    /\ pc = "fetchOne"
    /\ pc' = "parse"
    /\ UNCHANGED <<auxVars, boxFlags, clockStamped,
                   page, pageSize, unreadOnly, imapState, boxTotal, uids,
                   planVars, results, now, logged, flowUnused, flowVars,
                   response, responses>>

\* await client.fetchOne(uid, ...) rejects: the catch of the iteration logs
FlowFetchOneFail ==
    /\ pc = "fetchOne"
    /\ logged' = logged \cup {FetchErrorLog(pageUids[cursor], "fetchOne")}
    /\ FlowAdvance
    /\ UNCHANGED <<auxVars, boxFlags, clockStamped,
                   page, pageSize, unreadOnly, imapState, boxTotal, uids,
                   planVars, results, now, flowUnused, response, responses>>

\* await simpleParser(message.source) resolves: emails.push({id: uid, ...})
\* with the envelope's date, or Date.now() when the envelope has none
FlowParseOk ==
    /\ pc = "parse"
    /\ \E d \in {NoDate} \cup (1..MaxDate) :
        IF d # NoDate
        THEN /\ results' = Append(results, EmailObj(pageUids[cursor], d))
             /\ now' = now
        ELSE \E t \in now..MaxDate :
             /\ now' = t
             /\ results' = Append(results, EmailObj(pageUids[cursor], t))
    /\ FlowAdvance
    /\ UNCHANGED <<auxVars, boxFlags, clockStamped,
                   page, pageSize, unreadOnly, imapState, boxTotal, uids,
                   planVars, logged, flowUnused, response, responses>>

\* await simpleParser(message.source) rejects, or building the summary
\* throws: the catch of the iteration logs
FlowParseFail ==
    /\ pc = "parse"
    /\ logged' = logged \cup {FetchErrorLog(pageUids[cursor], "simpleParser")}
    /\ FlowAdvance
    /\ UNCHANGED <<auxVars, boxFlags, clockStamped,
                   page, pageSize, unreadOnly, imapState, boxTotal, uids,
                   planVars, results, now, flowUnused, response, responses>>

\* await client.logout() resolves: res.json({emails, pagination})
FlowLogoutOk ==
    /\ pc = "logout"
    /\ imapState' = "ended"
    /\ response' = Success(results, Pagination(page, pageSize, totalMessages, totalPages))
    /\ responses' = responses + 1
    /\ pc' = "done"
    /\ UNCHANGED <<auxVars, boxFlags, clockStamped,
                   page, pageSize, unreadOnly, boxTotal, uids, planVars,
                   results, now, logged, flowUnused, flowVars>>

\* await client.logout() rejects: the inner catch releases the lock again
FlowLogoutFail ==
    /\ pc = "logout"
    /\ imapState' = "logoutFailed"
    /\ FlowInnerCatch("logout")
    /\ UNCHANGED <<auxVars, boxFlags, clockStamped,
                   page, pageSize, unreadOnly, boxTotal, uids, planVars,
                   results, now, logged, flowUnused, cursor>>

FlowNext ==
    \/ FlowConnectOk
    \/ FlowConnectFail
    \/ FlowLockOk
    \/ FlowLockFail
    \/ FlowStatusOk
    \/ FlowStatusFail
    \/ FlowLogoutEmptyOk
    \/ FlowLogoutEmptyFail
    \/ FlowSearchOk
    \/ FlowSearchFail
    \/ FlowFetchOneOk
    \/ FlowFetchOneFail
    \/ FlowParseOk
    \/ FlowParseFail
    \/ FlowLogoutOk
    \/ FlowLogoutFail

FlowSpec == Init /\ [][FlowNext]_vars

\* ------------------------------------------- the accumulation of bodies
\* Lines 61-69 on their own, with every chunk told apart: the k-th chunk the
\* server sends for the message of sequence number s is <<s, k, data>>.
\* bodies[s] is the closure of the s-th 'message' event: the chunks sent on
\* its body stream so far, its variable `buffer`, and whether its 'end'
\* handler has read the buffer.
NewBody == [sent |-> <<>>, buffer |-> <<>>, ended |-> FALSE]

\* fetch.on('message', (msg, seqno) => { let buffer = Buffer.alloc(0); ...
AsmMessage ==
    /\ Len(bodies) < MaxMsgs
    /\ bodies' = Append(bodies, NewBody)
    /\ UNCHANGED <<mainVars, text, preview, requests, conn, single>>

AsmDataSharedBuffer(s) ==
    /\ ~bodies[s].ended
    /\ Len(bodies[s].sent) < MaxChunks
    /\ \E d \in Chunks :
        LET chunk == <<s, Len(bodies[s].sent) + 1, d>>
        IN bodies' = [r \in 1..Len(bodies) |->
                        IF r = s
                        THEN [bodies[r] EXCEPT !.sent = Append(@, chunk),
                                               !.buffer = Append(@, chunk)]
                        ELSE [bodies[r] EXCEPT !.buffer = Append(@, chunk)]]
    /\ UNCHANGED <<mainVars, text, preview, requests, conn, single>>

\* stream.on('data', (chunk) => { buffer = Buffer.concat([buffer, chunk]); })
\* of the body stream of message s
AsmData(s) ==
    /\ ~bodies[s].ended
    /\ Len(bodies[s].sent) < MaxChunks
    /\ \E d \in Chunks :
        LET chunk == <<s, Len(bodies[s].sent) + 1, d>>
        IN bodies' = [bodies EXCEPT ![s].sent = Append(@, chunk),
                                    ![s].buffer = Append(@, chunk)]
    /\ UNCHANGED <<mainVars, text, preview, requests, conn, single>>

\* msg.once('end'): the buffer as it stands goes to simpleParser(buffer)
AsmEnd(s) ==
    /\ ~bodies[s].ended
    /\ bodies' = [bodies EXCEPT ![s].ended = TRUE]
    /\ UNCHANGED <<mainVars, text, preview, requests, conn, single>>

AsmNext ==
    \/ AsmMessage
    \/ \E s \in 1..Len(bodies) : AsmData(s)
    \/ \E s \in 1..Len(bodies) : AsmEnd(s)

AsmSpec == Init /\ [][AsmNext]_vars

\* ------------------------------------------------ concurrent requests
\* Several calls of the handler in flight at once, each reduced to what it
\* creates for itself: the connection (line 7), `results` and `processed`
\* (lines 47-48).  requests[r] is the state of the r-th call; the events of
\* its fetch stream come from its own connection.
NewRequest ==
    [imap |-> "ready", results |-> <<>>, processed |-> {}, parsing |-> {}]

\* app.post("/api/emails") is called: createImapConnection returns a new
\* Imap, the promise executor a new array and a new Set
ReqOpen ==
    /\ Len(requests) < MaxReqs
    /\ requests' = Append(requests, NewRequest)
    /\ UNCHANGED <<mainVars, text, preview, bodies, conn, single>>

\* msg.once('end') on the stream of request r, for a message with uid u and
\* a body: processed.add(uid); await simpleParser(buffer)
ReqMsgEnd(r, u) ==
    /\ requests[r].imap = "ready"
    /\ u \notin requests[r].processed
    /\ requests' = [requests EXCEPT ![r].processed = @ \cup {u},
                                    ![r].parsing = @ \cup {u}]
    /\ UNCHANGED <<mainVars, text, preview, bodies, conn, single>>

ReqParsedSharedResults(r, u) ==
    /\ u \in requests[r].parsing
    /\ requests' = [q \in 1..Len(requests) |->
                        IF q = r
                        THEN [requests[q] EXCEPT !.parsing = @ \ {u},
                                                 !.results = Append(@, u)]
                        ELSE [requests[q] EXCEPT !.results = Append(@, u)]]
    /\ UNCHANGED <<mainVars, text, preview, bodies, conn, single>>

\* simpleParser resolves in request r: results.push(emailObj)
ReqParsed(r, u) ==
    /\ u \in requests[r].parsing
    /\ requests' = [requests EXCEPT ![r].parsing = @ \ {u},
                                    ![r].results = Append(@, u)]
    /\ UNCHANGED <<mainVars, text, preview, bodies, conn, single>>

\* fetch.once('end') of request r: resolve(results); imap.end()
ReqEnd(r) ==
    /\ requests[r].imap = "ready"
    /\ requests' = [requests EXCEPT ![r].imap = "ended"]
    /\ UNCHANGED <<mainVars, text, preview, bodies, conn, single>>

ReqNext ==
    \/ ReqOpen
    \/ \E r \in 1..Len(requests), u \in 1..MaxUid : ReqMsgEnd(r, u)
    \/ \E r \in 1..Len(requests), u \in 1..MaxUid : ReqParsed(r, u)
    \/ \E r \in 1..Len(requests) : ReqEnd(r)

ReqSpec == Init /\ [][ReqNext]_vars

\* ------------------------------------------------ the preview derivation
\* Strings are sequences of characters.
Whitespace == {" ", "\n", "\t"}

Rep(c, n) == [i \in 1..n |-> c]

\* the characters of s at the positions of K, in order
RECURSIVE Keep(_, _, _, _)
Keep(s, K, lo, hi) ==
    IF lo > hi THEN <<>>
    ELSE IF lo = hi THEN (IF lo \in K THEN <<s[lo]>> ELSE <<>>)
    ELSE LET mid == (lo + hi) \div 2
         IN Keep(s, K, lo, mid) \o Keep(s, K, mid + 1, hi)

\* s.replace(/<[^>]*>/g, ''): a match starts at a '<' and runs to the first
\* '>' after it, so position i is matched when a '>' follows at or after i
\* and a '<' stands at or before i with no '>' between that '<' and i; a
\* '<' without a later '>' and a '>' without an earlier '<' stay
InTag(s, i) ==
    /\ \E j \in i..Len(s) : s[j] = ">"
    /\ \E l \in 1..i : s[l] = "<" /\ \A m \in l..(i - 1) : s[m] # ">"

StripTags(s) ==
    Keep(s, {i \in 1..Len(s) : ~InTag(s, i)}, 1, Len(s))

\* s.replace(/\s+/g, ' '): every maximal run of whitespace becomes one space
CollapseWhitespace(s) ==
    Keep([i \in 1..Len(s) |-> IF s[i] \in Whitespace THEN " " ELSE s[i]],
         {i \in 1..Len(s) :
            ~(s[i] \in Whitespace /\ i > 1 /\ s[i - 1] \in Whitespace)},
         1, Len(s))

\* s.trim()
Trim(s) ==
    LET solid == {i \in 1..Len(s) : s[i] \notin Whitespace}
    IN IF solid = {} THEN <<>>
       ELSE LET first == CHOOSE i \in solid : \A j \in solid : i <= j
                last == CHOOSE i \in solid : \A j \in solid : j <= i
            IN SubSeq(s, first, last)

\* s.substring(0, n)
Substring(s, n) == SubSeq(s, 1, Min(n, Len(s)))

\* parsed.text || parsed.textAsHtml || ''
TextOf(parsed) ==
    IF parsed.text # <<>> THEN parsed.text
    ELSE IF parsed.textAsHtml # <<>> THEN parsed.textAsHtml
    ELSE <<>>

\* const preview = (...).replace(...).replace(...).trim().substring(0, 150)
Preview(parsed) ==
    Substring(Trim(CollapseWhitespace(StripTags(TextOf(parsed)))), PreviewLimit)

\* the preview without the fallback
PreviewNoPlaceholder(parsed) == Preview(parsed)

\* preview: preview || "(No preview)"
PreviewField(parsed) ==
    IF Preview(parsed) # <<>> THEN Preview(parsed) ELSE Placeholder

\* the pieces the texts of the preview specification are made of
Pieces ==
    { <<" ">>, <<"\n">>, <<"\t", " ">>, <<"a">>, Rep("a", PreviewLimit - 1),
      <<"<", "b", ">">>, <<"<">>, <<">">> }

RECURSIVE TextsOf(_)
TextsOf(n) ==
    IF n = 0 THEN {<<>>}
    ELSE LET shorter == TextsOf(n - 1)
         IN shorter \cup {t \o q : t \in shorter, q \in Pieces}

\* what simpleParser hands over: a text, and an HTML rendering used when
\* the text is empty
PreviewInit ==
    /\ page = 1
    /\ pageSize = 1
    /\ unreadOnly = FALSE
    /\ boxFlags = {}
    /\ InitState
    /\ text \in [text : TextsOf(MaxPieces),
                 textAsHtml : {<<>>, <<"<", "p", ">", " ", "a", "<", "/", "p", ">">>}]
    /\ preview = <<>>
    /\ bodies = <<>>
    /\ requests = <<>>
    /\ conn = <<>>
    /\ single = <<>>

\* lines 91-107: the summary of the parsed message is built
BuildPreview ==
    /\ preview = <<>>
    /\ preview' = <<PreviewField(text)>>
    /\ UNCHANGED <<mainVars, text, bodies, requests, conn, single>>

PreviewNext == BuildPreview

PreviewSpec == PreviewInit /\ [][PreviewNext]_vars

\* ------------------------------------------------------------ connectImap
\* connectImap(imap, timeoutMs = 15000) of src/unnamed/part_002 lines 32-51
\* (the same text at src/unnamed/part_000 lines 432-451).  `conn` holds the
\* promise, the timer, the two once-listeners and whether imap.destroy()
\* was called.  An event whose once-listener has been removed reaches no
\* code of connectImap and is not followed.
TickMs == 5000

\* the callers pass 10000 or leave the default of 15000
TimeoutValues == {10000, 15000}

ConnErrors == {"ECONNREFUSED", "ETIMEDOUT"}

ConnInit ==
    /\ page = 1
    /\ pageSize = 1
    /\ unreadOnly = FALSE
    /\ boxFlags = {}
    /\ InitState
    /\ text = <<>>
    /\ preview = <<>>
    /\ bodies = <<>>
    /\ requests = <<>>
    /\ single = <<>>
    /\ \E ms \in TimeoutValues :
        conn = [timeoutMs |-> ms, elapsed |-> 0, timeout |-> "armed",
                ready |-> TRUE, error |-> TRUE, destroyed |-> FALSE,
                settled |-> "pending", by |-> "none", reason |-> "none"]

\* resolve() / reject(err): only the first call settles the promise
ConnSettle(c, outcome, by, reason) ==
    IF c.settled = "pending"
    THEN [c EXCEPT !.settled = outcome, !.by = by, !.reason = reason]
    ELSE c

\* clearTimeout(timeout)
ConnClearTimeout(c) ==
    [c EXCEPT !.timeout = IF @ = "armed" THEN "cleared" ELSE @]

\* time passes
ConnTick ==
    /\ conn.elapsed < MaxTicks * TickMs
    /\ conn' = [conn EXCEPT !.elapsed = @ + TickMs]
    /\ UNCHANGED <<mainVars, text, preview, bodies, requests, single>>

\* a 'ready' listener that leaves the timer running
ConnReadyKeepsTimer ==
    /\ conn.ready
    /\ conn' = ConnSettle([conn EXCEPT !.ready = FALSE],
                          "resolved", "ready", "none")
    /\ UNCHANGED <<mainVars, text, preview, bodies, requests, single>>

\* imap.once('ready'): clearTimeout(timeout); resolve()
ConnReady ==
    /\ conn.ready
    /\ conn' = ConnSettle(ConnClearTimeout([conn EXCEPT !.ready = FALSE]),
                          "resolved", "ready", "none")
    /\ UNCHANGED <<mainVars, text, preview, bodies, requests, single>>

\* imap.once('error'): clearTimeout(timeout); reject(err)
ConnError ==
    /\ conn.error
    /\ \E err \in ConnErrors :
        conn' = ConnSettle(ConnClearTimeout([conn EXCEPT !.error = FALSE]),
                           "rejected", "error", err)
    /\ UNCHANGED <<mainVars, text, preview, bodies, requests, single>>

\* the timer callback, due after timeoutMs: imap.destroy();
\* reject(new Error('Connection timeout'))
ConnTimeout ==
    /\ conn.timeout = "armed"
    /\ conn.elapsed >= conn.timeoutMs
    /\ conn' = ConnSettle([conn EXCEPT !.timeout = "fired", !.destroyed = TRUE],
                          "rejected", "timeout", "Connection timeout")
    /\ UNCHANGED <<mainVars, text, preview, bodies, requests, single>>

ConnNext ==
    \/ ConnTick
    \/ ConnReady
    \/ ConnError
    \/ ConnTimeout

ConnSpec == ConnInit /\ [][ConnNext]_vars

\* ------------------------------------ the single-message body fetch
\* app.get("/api/emails/:uid") of src/server.js, lines 200-258, from the
\* call of imap.fetch([uid], ...) on.  `buffer` is declared outside the
\* 'message' listener, so every message of the stream appends to the same
\* buffer; simpleParser is called with the buffer as it is at the message's
\* 'end'.  `single` holds the buffer, the number of messages that have not
\* ended, the buffers handed to the parser that it has not answered, the
\* stream's once-listeners, the promise and the response.
SingleInit ==
    /\ page = 1
    /\ pageSize = 1
    /\ unreadOnly = FALSE
    /\ boxFlags = {}
    /\ InitState
    /\ text = <<>>
    /\ preview = <<>>
    /\ bodies = <<>>
    /\ requests = <<>>
    /\ conn = <<>>
    /\ single = [pc |-> "fetching", buffer |-> <<>>, open |-> 0, delivered |-> 0,
                 parsing |-> EmptyBag, streamEnd |-> FALSE, streamError |-> FALSE,
                 settled |-> "pending", imapEnded |-> FALSE,
                 response |-> NoResponse]

\* resolve(emailData), then imap.end(); res.json(emailData)
SingleResolve(s, buffer) ==
    IF s.settled = "pending"
    THEN [s EXCEPT !.settled = "resolved", !.pc = "done", !.imapEnded = TRUE,
                   !.response = [status |-> "ok", body |-> buffer]]
    ELSE s

\* reject(err), then the catch block: imap.end(); res.status(500).json(...)
SingleReject(s, message) ==
    IF s.settled = "pending"
    THEN [s EXCEPT !.settled = "rejected", !.pc = "done", !.imapEnded = TRUE,
                   !.response = Failure(message)]
    ELSE s

\* fetch.on('message')
SingleMessage ==
    /\ single.delivered < MaxMsgs
    /\ single' = [single EXCEPT !.open = @ + 1, !.delivered = @ + 1]
    /\ UNCHANGED <<mainVars, text, preview, bodies, requests, conn>>

\* stream.on('data'): buffer = Buffer.concat([buffer, chunk])
SingleData ==
    /\ single.open > 0
    /\ Len(single.buffer) < MaxChunks
    /\ \E c \in Chunks :
        single' = [single EXCEPT !.buffer = Append(@, c)]
    /\ UNCHANGED <<mainVars, text, preview, bodies, requests, conn>>

\* msg.once('end'), up to the await of simpleParser(buffer)
SingleMsgEnd ==
    /\ single.open > 0
    /\ single' = [single EXCEPT !.open = @ - 1,
                                !.parsing = @ (+) SetToBag({single.buffer})]
    /\ UNCHANGED <<mainVars, text, preview, bodies, requests, conn>>

\* simpleParser resolves: resolve({bodyText, bodyHTML, preview})
SingleParseResolve(b) ==
    /\ ~ParseFails(b)
    /\ single' = SingleResolve([single EXCEPT !.parsing = @ (-) SetToBag({b})], b)
    /\ UNCHANGED <<mainVars, text, preview, bodies, requests, conn>>

\* simpleParser rejects: catch (err) { reject(err) }
SingleParseReject(b) ==
    /\ ParseFails(b)
    /\ single' = SingleReject([single EXCEPT !.parsing = @ (-) SetToBag({b})], "parse")
    /\ UNCHANGED <<mainVars, text, preview, bodies, requests, conn>>

\* fetch.once('error', reject)
SingleFetchError ==
    /\ ~single.streamError
    /\ single' = SingleReject([single EXCEPT !.streamError = TRUE], "fetch")
    /\ UNCHANGED <<mainVars, text, preview, bodies, requests, conn>>

\* fetch.once('end'): if (!buffer.length) reject(new Error('No email data received'))
SingleFetchEnd ==
    /\ ~single.streamEnd
    /\ single' = IF Len(single.buffer) = 0
                 THEN SingleReject([single EXCEPT !.streamEnd = TRUE],
                                 "No email data received")
                 ELSE [single EXCEPT !.streamEnd = TRUE]
    /\ UNCHANGED <<mainVars, text, preview, bodies, requests, conn>>

SingleParseSettles ==
    \E b \in BagToSet(single.parsing) : SingleParseResolve(b) \/ SingleParseReject(b)

SingleNext ==
    \/ SingleMessage
    \/ SingleData
    \/ SingleMsgEnd
    \/ \E b \in BagToSet(single.parsing) : SingleParseResolve(b)
    \/ \E b \in BagToSet(single.parsing) : SingleParseReject(b)
    \/ SingleFetchError
    \/ SingleFetchEnd

SingleSpec == SingleInit /\ [][SingleNext]_vars

\* the parser answers every buffer it was given; no other step is owed
SingleLiveSpec == SingleSpec /\ WF_vars(SingleParseSettles)

\* ------------------------------------------------------------ properties
IdsOf(list) == {list[i].id : i \in 1..Len(list)}

\* the window has been planned: search resolved and lines 29-34 have run
Planned == boxTotal > 0 /\ (FetchOpened \/ (pc = "done" /\ response.status = "ok"))

\* C1: for every totalCount >= 0, page >= 1 and pageSize >= 1 the planned
\* slice has length max(0, min(pageSize, totalCount - (page-1)*pageSize)).
C1_SliceLength ==
    Planned =>
        Len(pageUids) = Max(0, Min(pageSize, totalMessages - (page - 1) * pageSize))

\* C2: a page beyond totalPages of a non-empty search result is answered with
\* a success carrying no emails, and no fetch stream is opened for it.
C2_BeyondLastPageEmpty ==
    (Planned /\ totalMessages > 0 /\ page > totalPages) =>
        /\ ~FetchOpened
        /\ response.status = "ok"
        /\ response.emails = <<>>

\* C3: for 1 <= page <= totalPages the slice is the search result's positions
\* max(0, total - page*pageSize) .. total - (page-1)*pageSize - 1 listed in
\* reverse, hence strictly descending by UID; total=10, page=2, pageSize=4
\* gives positions 5,4,3,2, totalPages = 3 and hasMore = true.
C3_SliceIsReversedWindow ==
    (Planned /\ 1 <= page /\ page <= totalPages) =>
        LET lo == IF totalMessages - page * pageSize > 0
                  THEN totalMessages - page * pageSize ELSE 0
            hi == totalMessages - (page - 1) * pageSize
        IN /\ startIdx = lo
           /\ endIdx = hi
           /\ Len(pageUids) = hi - lo
           /\ \A i \in 1..Len(pageUids) : pageUids[i] = uids[hi + 1 - i]
           /\ \A i \in 1..(Len(pageUids) - 1) : pageUids[i] > pageUids[i + 1]
           /\ (totalMessages = 10 /\ page = 2 /\ pageSize = 4) =>
                /\ pageUids = <<uids[6], uids[5], uids[4], uids[3]>>
                /\ totalPages = 3
                /\ HasMore(page, totalPages)

C3_Witness ==
    /\ pc = "fetching"
    /\ totalMessages = 10 /\ page = 2 /\ pageSize = 4
    /\ pageUids = <<6, 5, 4, 3>>

\* the UIDs that have reached Complete: their summary is in the list, or
\* their end-of-message came with a non-empty buffer that parses and the
\* parser has not answered yet
CompleteUids ==
    IdsOf(results) \cup {m.uid : m \in {n \in Parsing : ~ParseFails(n.buffer)}}

\* C4: when the deadline fires before the stream has ended, the response
\* carries exactly the summaries of the UIDs that had reached Complete.
C4_TimeoutReturnsCompleted ==
    [][(settled = "pending" /\ settled' = "timeout") =>
            /\ response'.status = "ok"
            /\ IdsOf(response'.emails) = CompleteUids]_vars

\* C5: once the fetch is opened a response is eventually sent, whatever the
\* stream does, provided the timer callback runs.
C5_FetchAlwaysAnswered == (pc = "fetching") ~> (response # NoResponse)

C5_Witness ==
    /\ timer = "fired"
    /\ settled = "timeout"
    /\ ~streamEnd /\ ~streamError
    /\ Receiving # {}
    /\ response.status = "ok"

\* C6: when the stream ends after every requested UID has delivered its
\* attributes, a non-empty body that parses and its end-of-message, the
\* response carries exactly one summary per requested UID.
C6_StreamEndReturnsAll ==
    [][(/\ settled = "pending"
        /\ settled' = "end"
        /\ Range(pageUids) \subseteq CompleteUids) =>
            /\ IdsOf(response'.emails) = Range(pageUids)
            /\ Len(response'.emails) = Len(pageUids)]_vars

NoDuplicateId(list) ==
    \A i, j \in 1..Len(list) : i # j => list[i].id # list[j].id

\* C7: no UID appears twice in the emails of a response (nor in the result
\* list at any time), whatever the stream delivers.
C7_NoDuplicateUid ==
    /\ NoDuplicateId(results)
    /\ response.status = "ok" => NoDuplicateId(response.emails)

\* a second delivery of a UID whose first delivery is already processed is
\* carrying a body, and the response holds that UID
C7_Witness ==
    /\ response.status = "ok"
    /\ \E m \in Receiving :
        /\ m.uid \in processed
        /\ m.uid \in IdsOf(response.emails)
        /\ Len(m.buffer) > 0

SortedDesc(list) ==
    \A i \in 1..(Len(list) - 1) : list[i].timestamp >= list[i + 1].timestamp

\* C8: the emails of every success response are sorted descending by
\* timestamp, whichever event resolved the fetch.
C8_ResponseSorted == response.status = "ok" => SortedDesc(response.emails)

\* C9: once the promise has settled, the list handed to the caller (the
\* array `results` itself: resolve(results) passes the reference) is not
\* added to, removed from or reordered, and the response does not change.
C9_SettledListFrozen ==
    [][settled # "pending" => (results' = results /\ response' = response)]_vars

\* C10: every success response reports totalMessages = the length of the
\* search result, totalPages = ceil(totalMessages / pageSize) and
\* hasMore = (page < totalPages).
C10_PaginationMeta ==
    response.status = "ok" =>
        LET pg == response.pagination
        IN /\ pg.totalMessages = Len(uids)
           /\ pg.totalPages * pageSize >= pg.totalMessages
           /\ (pg.totalPages - 1) * pageSize < pg.totalMessages
           /\ pg.hasMore = (page < pg.totalPages)

\* a partial page: the deadline answered with fewer summaries than messages
C10_Witness ==
    /\ response.status = "ok"
    /\ settled = "timeout"
    /\ Len(response.emails) >= 1
    /\ Len(response.emails) < response.pagination.totalMessages
    /\ response.pagination.hasMore

\* the search resolved with no UID at all, or the mailbox held no message
EmptySearchResult ==
    /\ pc = "done"
    /\ response.status = "ok"
    /\ uids = <<>>

\* C11: whenever the search result is empty, because the mailbox is empty or
\* because the filter matches nothing in a non-empty mailbox, the response
\* is a success with no emails and the pagination
\* {page: 1, pageSize, totalMessages: 0, totalPages: 0, hasMore: false},
\* whatever page was requested.
C11_EmptyResultIsPageOne ==
    EmptySearchResult => response = Success(<<>>, EmptyBoxPagination(pageSize))

\* C12: a fetch stream error that arrives while the promise is pending is
\* answered with a success carrying the summaries built so far, never with
\* an error response.
C12_StreamErrorReturnsPartial ==
    [][(settled = "pending" /\ ~streamError /\ streamError') =>
            /\ settled' = "error"
            /\ response'.status = "ok"
            /\ response'.emails = results]_vars

\* the stream failed after one of two requested messages had been parsed
C12_Witness ==
    /\ settled = "error"
    /\ ~streamEnd
    /\ response.status = "ok"
    /\ Len(response.emails) = 1
    /\ Len(pageUids) = 2

Closed == imapState \in {"ended", "destroyed"}

\* C13: every way out of the handler (empty mailbox, empty slice, stream
\* end, deadline, stream error, failure of connect, openBox or search) has
\* called imap.end() or imap.destroy() by the time the response is sent.
C13_ConnectionClosedOnExit ==
    (pc = "done" \/ response # NoResponse) => Closed

\* openBox failed on a ready connection and the catch block destroyed it
C13_Witness ==
    /\ response = Failure("openBox")
    /\ imapState = "destroyed"

\* C14: an error response is sent only when connecting, opening the mailbox
\* or the search failed, and then no fetch stream was opened and no UID was
\* requested; an execution that ends any other way ends in a success.
C14_ErrorOnlyBeforeFetch ==
    /\ response.status = "error" =>
        /\ response.error \in {"connect", "openBox", "search"}
        /\ ~FetchOpened
        /\ pageUids = <<>>
        /\ msgs = EmptyBag
    /\ (pc = "done" /\ response.status # "error") => response.status = "ok"
    /\ FetchOpened => response.status # "error"

\* the search failed in a mailbox that holds messages: nothing was fetched
C14_Witness ==
    /\ response = Failure("search")
    /\ boxTotal > 0
    /\ timer = "none"
    /\ pc = "done"

\* C15: when the parser rejects the buffer of one UID, that UID gets no
\* summary and nothing else changes: the summaries of the other UIDs stay in
\* the list, the promise is not settled by it and no error response is sent.
C15_ParseFailureExcludesOnlyThatUid ==
    [][\A m \in Parsing :
        (ParseFails(m.buffer) /\ msgs' = Remove(msgs, m)) =>
            /\ results' = results
            /\ settled' = settled
            /\ response' = response
            /\ m.uid \notin IdsOf(results')
            /\ (response'.status = "ok" => m.uid \notin IdsOf(response'.emails))]_vars

\* of two requested UIDs one failed to parse; the stream end answered with
\* the summary of the other
C15_Witness ==
    /\ settled = "end"
    /\ response.status = "ok"
    /\ Len(pageUids) = 2
    /\ Len(response.emails) = 1
    /\ \E u \in Range(pageUids) :
        /\ ParseErrorLog(u) \in logged
        /\ u \notin IdsOf(response.emails)

\* C16: a UID whose end-of-message arrives with a zero-length buffer is
\* never handed to the parser and has no summary in the list or in the
\* response; a UID that has not ended when the deadline fires (its buffer
\* still empty) is not in the deadline's response; that response is a
\* success.
C16_EmptyBufferAbsent ==
    /\ \A m \in Parsing : Len(m.buffer) > 0
    /\ \A u \in Range(pageUids) :
        EmptyBufferLog(u) \in logged =>
            /\ u \notin IdsOf(results)
            /\ (response.status = "ok" => u \notin IdsOf(response.emails))
    /\ settled = "timeout" =>
        /\ response.status = "ok"
        /\ IdsOf(response.emails) \subseteq processed

\* of two requested UIDs one ended with no byte; the deadline answered with
\* the summary of the other
C16_Witness ==
    /\ settled = "timeout"
    /\ response.status = "ok"
    /\ Len(pageUids) = 2
    /\ Len(response.emails) = 1
    /\ \E u \in Range(pageUids) :
        /\ EmptyBufferLog(u) \in logged
        /\ u \notin IdsOf(response.emails)

\* C17: for a request of page 1 in which every requested message has
\* completed and parsed (the response holds a summary of each), the first
\* summary of the response is the message with the highest UID of the
\* search result.
C17_PageOneStartsWithHighestUid ==
    (/\ response.status = "ok"
     /\ page = 1
     /\ pageUids # <<>>
     /\ IdsOf(response.emails) = Range(pageUids)) =>
        response.emails[1].id = uids[Len(uids)]

\* C18: in the header-only handler with the 25-second timer, the expiry of
\* the timer and an error of the fetch stream are both answered with a
\* success carrying the summaries built so far, not with an error response.
C18_HdrTimeoutAndErrorReturnPartial ==
    [][(settled = "pending" /\ settled' \in {"timeout", "error"} /\ HdrStream') =>
            /\ response'.status = "ok"
            /\ response'.emails = results]_vars

\* C19: in the node-imap handler of server.js the fetch is bounded by a
\* deadline: once the fetch is opened a response is eventually sent, also
\* when the stream emits neither 'end' nor 'error'.
C19_SrvFetchAlwaysAnswered == (pc = "fetching") ~> (response # NoResponse)

\* C20: in the ImapFlow handler every execution in which connect succeeded
\* has called client.logout() by the time it has answered, whichever way it
\* left: also after a failure of getMailboxLock, status or search and after
\* an exception thrown once the lock was taken.
C20_FlowLogsOutOnEveryExit ==
    (pc = "done" /\ response # Failure("connect")) =>
        imapState \in {"ended", "logoutFailed"}

\* C21: each summary's unread is true exactly when the flags reported for
\* its UID lack \Seen, and its starred is true exactly when they hold
\* \Flagged.
C21_FlagsFollowAttributes ==
    \A i \in 1..Len(results) :
        /\ results[i].unread = (Seen \notin FlagsOf(results[i].id))
        /\ results[i].starred = (Flagged \in FlagsOf(results[i].id))

\* C22: a message whose end-of-message arrives with a non-empty body that
\* parses, and whose attributes event has not arrived, is not dropped: it
\* goes on to the parser, to be emitted as a summary.
C22_NoAttributesStillEmitted ==
    [][\A m \in Receiving :
        (/\ m.uid = Undefined
         /\ Len(m.buffer) > 0
         /\ ~ParseFails(m.buffer)
         /\ completed' = completed + 1
         /\ CopiesIn(m, msgs') = CopiesIn(m, msgs) - 1) =>
            msgs' = Replace(msgs, m, [m EXCEPT !.parsing = TRUE])]_vars

\* C23: for every interleaving of the chunk events of different messages,
\* the buffer a message hands to the parser is the concatenation of exactly
\* the chunks sent for that message, in the order they were sent; no chunk
\* of another message is in it.
C23_BufferIsOwnChunksInOrder ==
    \A s \in 1..Len(bodies) :
        /\ bodies[s].buffer = bodies[s].sent
        /\ \A k \in 1..Len(bodies[s].buffer) :
            /\ bodies[s].buffer[k][1] = s
            /\ bodies[s].buffer[k][2] = k

\* two messages whose chunks arrived interleaved have both ended
C23_Witness ==
    /\ Len(bodies) = 2
    /\ bodies[1].ended /\ bodies[2].ended
    /\ Len(bodies[1].buffer) = 2
    /\ Len(bodies[2].buffer) = 2

C25_RequestsDoNotInterfere ==
    [][\A q, r \in 1..Len(requests) :
        (q # r /\ requests'[q] # requests[q]) =>
            /\ requests'[r].results = requests[r].results
            /\ requests'[r].processed = requests[r].processed]_vars

\* two requests in flight have each pushed a summary, of the same UID
C25_Witness ==
    /\ Len(requests) = 2
    /\ requests[1].results = <<1>>
    /\ requests[2].results = <<1>>
    /\ requests[1].imap = "ready"
    /\ requests[2].imap = "ready"

\* C26: retrieving a page changes no flag of any message of the mailbox:
\* the box is opened read-only and the fetch does not ask to mark messages
\* seen.
C26_FlagsUnchanged == [][boxFlags' = boxFlags]_vars

\* a page holding an unseen message was retrieved from a mailbox with a
\* flagged and a deleted message
C26_Witness ==
    /\ settled = "end"
    /\ response.status = "ok"
    /\ boxFlags = {<<1, Flagged>>, <<2, Deleted>>}
    /\ \E i \in 1..Len(response.emails) :
        Seen \notin FlagsOf(response.emails[i].id)

\* C27: a summary built from a buffer without Date header has the clock
\* value of its normalization as timestamp (so none later than the clock),
\* and in the response it stands before every summary with a smaller
\* timestamp and after every summary with a larger one.
C27_UndatedPlacedByClock ==
    /\ \A i \in 1..Len(results) :
        results[i].id \in clockStamped => results[i].timestamp <= now
    /\ response.status = "ok" =>
        \A i, j \in 1..Len(response.emails) :
            response.emails[i].id \in clockStamped =>
                /\ response.emails[j].timestamp < response.emails[i].timestamp => i < j
                /\ response.emails[j].timestamp > response.emails[i].timestamp => j < i

\* C29: for a fixed search result and pageSize the slices planned for the
\* pages 1..totalPages are pairwise disjoint and their union is the whole
\* search result, so every UID belongs to exactly one page.
C29_PagesPartitionSearchResult ==
    Planned =>
        /\ pageUids = PageUids(uids, page, pageSize)
        /\ \A p, q \in 1..totalPages :
            p # q => Range(PageUids(uids, p, pageSize))
                        \cap Range(PageUids(uids, q, pageSize)) = {}
        /\ UNION {Range(PageUids(uids, p, pageSize)) : p \in 1..totalPages}
              = Range(uids)
        /\ \A u \in Range(uids) :
            Cardinality({p \in 1..totalPages :
                            u \in Range(PageUids(uids, p, pageSize))}) = 1

C29_Witness ==
    /\ pc = "fetching"
    /\ totalMessages = 10 /\ pageSize = 4 /\ totalPages = 3 /\ page = 3
    /\ pageUids = <<2, 1>>
    /\ PageUids(uids, 2, pageSize) = <<6, 5, 4, 3>>
    /\ PageUids(uids, 1, pageSize) = <<10, 9, 8, 7>>

\* C30: the number of summaries in a page response never exceeds pageSize,
\* for every page >= 1 (pages beyond the last included) and every sequence
\* of stream events.
C30_AtMostPageSizeSummaries ==
    response.status = "ok" => Len(response.emails) <= pageSize

\* the preview before truncation
Untruncated(parsed) == Trim(CollapseWhitespace(StripTags(TextOf(parsed))))

\* C28 (as amended): every emitted preview is at most 150 characters long,
\* has no run of two or more whitespace characters, does not start with
\* whitespace and is never empty (the placeholder stands for an empty
\* derived text); it ends with whitespace only when the derived text was
\* longer than 150 characters and was cut right after a space.
C28_PreviewNormalized ==
    \A i \in 1..Len(preview) :
        LET p == preview[i]
        IN /\ Len(p) <= PreviewLimit
           /\ Len(p) >= 1
           /\ \A k \in 1..(Len(p) - 1) :
                ~(p[k] \in Whitespace /\ p[k + 1] \in Whitespace)
           /\ p[1] \notin Whitespace
           /\ p[Len(p)] \in Whitespace =>
                /\ Len(p) = PreviewLimit
                /\ Len(Untruncated(text)) > PreviewLimit
           /\ Untruncated(text) = <<>> => p = Placeholder

\* C28 (as stated): every emitted preview is at most 150 characters long,
\* has no run of two or more whitespace characters, no leading or trailing
\* whitespace, and is never empty: the placeholder "(No preview)" stands for
\* an empty derived text.
C28_PreviewTrimmedAndBounded ==
    \A i \in 1..Len(preview) :
        LET p == preview[i]
        IN /\ Len(p) <= PreviewLimit
           /\ Len(p) >= 1
           /\ \A k \in 1..(Len(p) - 1) :
                ~(p[k] \in Whitespace /\ p[k + 1] \in Whitespace)
           /\ p[1] \notin Whitespace
           /\ p[Len(p)] \notin Whitespace
           /\ Untruncated(text) = <<>> => p = Placeholder

C28_Witness ==
    /\ Len(preview) = 1
    /\ Len(preview[1]) = PreviewLimit
    /\ preview[1][PreviewLimit] = " "
    /\ text.text = Rep("a", PreviewLimit - 1) \o <<"\t", " ">> \o <<"a">>

\* C31: the planned slice of a page is non-empty exactly when
\* 1 <= page <= totalPages; in particular, when the response reports
\* hasMore = true the slice planned for page + 1 over the same search result
\* is non-empty.
C31_SliceNonEmptyIffPageExists ==
    Planned =>
        /\ Len(pageUids) > 0 <=> (1 <= page /\ page <= totalPages)
        /\ HasMore(page, totalPages) =>
              Len(PageUids(uids, page + 1, pageSize)) > 0

\* C32: the page handler sends exactly one HTTP response per request, for
\* every ordering of deadline expiry, stream error, stream end and late
\* message events: never a second one, a response exactly when the handler
\* has finished, and once the timer is armed a response follows.
C32_ExactlyOneResponse ==
    /\ [](/\ responses <= 1
          /\ responses = 1 <=> pc = "done"
          /\ responses = 1 <=> response # NoResponse
          /\ (settled # "pending" \/ timer \in {"fired", "cleared"}) => responses = 1)
    /\ (timer = "armed") ~> (responses = 1)

\* the deadline answered, and the stream's error, its end and a message
\* event came after the response
C32_Witness ==
    /\ settled = "timeout"
    /\ streamError /\ streamEnd
    /\ responses = 1
    /\ \E m \in Receiving : TRUE

\* C33: a UID is marked as processed at its first end-of-message whatever
\* the outcome of that completion (empty buffer, parse failure or success),
\* so only the first completion of a UID can contribute a summary: a later
\* delivery of the same UID, even with a non-empty buffer that parses, is
\* discarded.
C33_FirstCompletionOnly ==
    /\ [][\A m \in Receiving :
            (/\ completed' = completed + 1
             /\ CopiesIn(m, msgs') = CopiesIn(m, msgs) - 1) =>
                /\ m.uid # Undefined => m.uid \in processed'
                /\ m.uid \in processed =>
                    /\ msgs' = Remove(msgs, m)
                    /\ results' = results
                    /\ processed' = processed]_vars
    /\ [](\A u \in 1..MaxUid :
            /\ (u \in IdsOf(results) \/ \E m \in Parsing : m.uid = u)
                  => u \in processed
            /\ (EmptyBufferLog(u) \in logged \/ ParseErrorLog(u) \in logged) =>
                  /\ u \in processed
                  /\ u \notin IdsOf(results)
                  /\ ~\E m \in Parsing : m.uid = u)

\* the first delivery of a UID ended with an empty buffer, and a second
\* delivery of the same UID is carrying a body that parses
C33_Witness ==
    /\ settled = "pending"
    /\ \E m \in Receiving :
        /\ m.uid # Undefined
        /\ EmptyBufferLog(m.uid) \in logged
        /\ m.uid \in processed
        /\ Len(m.buffer) > 0
        /\ ~ParseFails(m.buffer)

\* C34: in the ImapFlow page handler, once the mailbox lock has been
\* acquired it is released exactly once on every exit path (empty mailbox,
\* success, search or status failure, failure of logout after release): never
\* released twice, never left held.
C34_LockReleasedExactlyOnce ==
    /\ lockReleases <= 1
    /\ lock = "held" => lockReleases = 0
    /\ (pc = "done" /\ lock # "none") => (lock = "released" /\ lockReleases = 1)

\* C35: connectImap settles exactly once with the first of ready, error and
\* timeout: on ready or error the timer is cleared and never fires
\* afterwards; when the timeout fires first the connection is destroyed and
\* the result is the rejection 'Connection timeout', which a ready event
\* arriving later does not turn into a success.
C35_ConnectSettlesOnceWithFirst ==
    /\ [][/\ conn.settled # "pending" =>
                /\ conn'.settled = conn.settled
                /\ conn'.by = conn.by
                /\ conn'.reason = conn.reason
          /\ (conn.settled = "pending" /\ conn' # conn /\ conn'.elapsed = conn.elapsed)
                => conn'.settled # "pending"
          /\ conn.timeout = "cleared" => conn'.timeout = "cleared"]_vars
    /\ [](/\ conn.by \in {"ready", "error"} =>
                /\ conn.timeout = "cleared"
                /\ ~conn.destroyed
          /\ conn.by = "ready" <=> conn.settled = "resolved"
          /\ conn.by = "timeout" =>
                /\ conn.destroyed
                /\ conn.timeout = "fired"
                /\ conn.settled = "rejected"
                /\ conn.reason = "Connection timeout"
          /\ (~conn.ready \/ ~conn.error \/ conn.timeout = "fired")
                <=> conn.settled # "pending")

\* the timeout fired first and a ready event arrived afterwards
C35_Witness ==
    /\ conn.by = "timeout"
    /\ ~conn.ready
    /\ conn.settled = "rejected"
    /\ conn.reason = "Connection timeout"

\* C36: the single-message body fetch always settles: it resolves with the
\* parsed body when the message's end-of-message arrives, it ends in an
\* error response when the stream ends without any data or never delivers
\* the message, and in no event sequence does the request stay unanswered
\* forever.
C36_SingleFetchAlwaysAnswered ==
    (single.pc = "fetching") ~> (single.response # NoResponse)

====
